---- MODULE Spec2Model ----
(***************************************************************************)
(* Model of the File Mover plugin (main.ts, listed in README.md).          *)
(*                                                                         *)
(* Strings are sequences of one-character strings, so that startsWith,     *)
(* split, includes, trim and the regular expressions of the source are     *)
(* computed character by character.                                        *)
(*                                                                         *)
(* Host calls (vault lookup, createFolder, renameFile, vault.process) are  *)
(* atomic; a call that the source awaits takes effect when it returns, and *)
(* other handlers may run between the call and its return.                 *)
(***************************************************************************)
EXTENDS Integers, Sequences, FiniteSets, TLC

VARIABLES settings, data, filePath, content, folders, menu, tasks, arg, res, ppc

vars == <<settings, data, filePath, content, folders, menu, tasks, arg, res, ppc>>

plugVars == <<settings, data, filePath, content, folders, menu, tasks>>

pureVars == <<arg, res, ppc>>

\* ------------------------------------------------------------------------
\* Bounds
\* ------------------------------------------------------------------------

MaxRequests == 1

MaxPathLen == 5

MaxDocLines == 4

\* ------------------------------------------------------------------------
\* String primitives of the JavaScript runtime
\* ------------------------------------------------------------------------

NL == "\n"

Letters ==
  {"a","b","c","d","e","f","g","h","i","j","k","l","m","n","o","p","q","r","s","t","u","v","w","x","y","z",
   "A","B","C","D","E","F","G","H","I","J","K","L","M","N","O","P","Q","R","S","T","U","V","W","X","Y","Z"}

WhiteSpace == {" ", "\t", "\r", "\n"}

StartsWith(s, pre) ==
  /\ Len(pre) <= Len(s)
  /\ \A i \in 1..Len(pre) : s[i] = pre[i]

Includes(s, c) == \E i \in 1..Len(s) : s[i] = c

Drop(s, n) == SubSeq(s, n + 1, Len(s))

RECURSIVE TrimStart(_)
TrimStart(s) ==
  IF s # <<>> /\ s[1] \in WhiteSpace THEN TrimStart(Tail(s)) ELSE s

RECURSIVE TrimEnd(_)
TrimEnd(s) ==
  IF s # <<>> /\ s[Len(s)] \in WhiteSpace THEN TrimEnd(SubSeq(s, 1, Len(s) - 1)) ELSE s

Trim(s) == TrimEnd(TrimStart(s))

\* s.split(sep) for a one-character separator: empty segments are kept
RECURSIVE SplitFrom(_, _, _)
SplitFrom(s, sep, cur) ==
  IF s = <<>> THEN <<cur>>
  ELSE IF s[1] = sep THEN <<cur>> \o SplitFrom(Tail(s), sep, <<>>)
  ELSE SplitFrom(Tail(s), sep, Append(cur, s[1]))

Split(s, sep) == SplitFrom(s, sep, <<>>)

RECURSIVE Join(_, _)
Join(parts, sep) ==
  IF parts = <<>> THEN <<>>
  ELSE IF Len(parts) = 1 THEN parts[1]
  ELSE parts[1] \o <<sep>> \o Join(Tail(parts), sep)

\* s.replace(/\\/g, "/")
ReplaceBackslashes(s) == [i \in 1..Len(s) |-> IF s[i] = "\\" THEN "/" ELSE s[i]]

\* ------------------------------------------------------------------------
\* isValidVaultPath
\* ------------------------------------------------------------------------

DotDot == <<".", ".">>

\* isValidVaultPath with only '/' taken as a separator
isValidVaultPath_noBackslash(p) ==
  IF \/ (Len(p) >= 2 /\ p[1] \in Letters /\ p[2] = ":")
     \/ StartsWith(p, <<"/">>)
  THEN FALSE
  ELSE LET segments == Split(p, "/")
       IN  ~ \E i \in 1..Len(segments) : segments[i] = DotDot

isValidVaultPath(p) ==
  IF \/ (Len(p) >= 2 /\ p[1] \in Letters /\ p[2] = ":")
     \/ StartsWith(p, <<"/">>)
  THEN FALSE
  ELSE LET segments == Split(ReplaceBackslashes(p), "/")
       IN  ~ \E i \in 1..Len(segments) : segments[i] = DotDot

\* ------------------------------------------------------------------------
\* removeRecommendedPathProperty: the callback given to vault.process
\* ------------------------------------------------------------------------

Fence == <<"-", "-", "-">>

OpenFence == Fence \o <<NL>>

CloseFence == <<NL>> \o Fence

\* Index of the first character of the closing "\n---" found by the lazy
\* match of /^---\n([\s\S]*?)\n---/, or 0 when the pattern does not match.
fmMatchEnd(c) ==
  IF ~ StartsWith(c, OpenFence) THEN 0
  ELSE LET cands == {k \in 5..Len(c) : StartsWith(Drop(c, k - 1), CloseFence)}
       IN  IF cands = {} THEN 0
           ELSE CHOOSE k \in cands : \A j \in cands : k <= j

\* new RegExp(`^${propName}\\s*:`) applied to one line.  The property name is
\* interpolated as a pattern: "." matches any character and "x?" makes x
\* optional; every other character of the modelled names is a literal.
RECURSIVE TailMatches(_)
TailMatches(s) ==
  /\ s # <<>>
  /\ \/ s[1] = ":"
     \/ (s[1] \in WhiteSpace /\ TailMatches(Tail(s)))

AtomMatches(a, ch) == a = "." \/ a = ch

RECURSIVE PatternMatches(_, _)
PatternMatches(pat, s) ==
  IF pat = <<>> THEN TailMatches(s)
  ELSE IF Len(pat) >= 2 /\ pat[2] = "?"
  THEN \/ (s # <<>> /\ AtomMatches(pat[1], s[1]) /\ PatternMatches(Drop(pat, 2), Tail(s)))
       \/ PatternMatches(Drop(pat, 2), s)
  ELSE s # <<>> /\ AtomMatches(pat[1], s[1]) /\ PatternMatches(Tail(pat), Tail(s))

LineMatches(propName, line) == PatternMatches(propName, line)

\* The replacement patterns String.prototype.replace expands in a string
\* replacement: $$, $&, $` and $'.  The pattern has no capture group, so
\* $n stays as written.
RECURSIVE ExpandReplacement(_, _, _, _)
ExpandReplacement(r, matched, before, after) ==
  IF r = <<>> THEN <<>>
  ELSE IF r[1] = "$" /\ Len(r) >= 2 /\ r[2] = "$"
  THEN <<"$">> \o ExpandReplacement(Drop(r, 2), matched, before, after)
  ELSE IF r[1] = "$" /\ Len(r) >= 2 /\ r[2] = "&"
  THEN matched \o ExpandReplacement(Drop(r, 2), matched, before, after)
  ELSE IF r[1] = "$" /\ Len(r) >= 2 /\ r[2] = "`"
  THEN before \o ExpandReplacement(Drop(r, 2), matched, before, after)
  ELSE IF r[1] = "$" /\ Len(r) >= 2 /\ r[2] = "'"
  THEN after \o ExpandReplacement(Drop(r, 2), matched, before, after)
  ELSE <<r[1]>> \o ExpandReplacement(Tail(r), matched, before, after)

IsBlank(l) == Trim(l) = <<>>

fmLines(c) == Split(SubSeq(c, 5, fmMatchEnd(c) - 1), NL)

\* lines.filter((line) => !line.match(...))
RECURSIVE filterLines(_, _)
filterLines(lines, propName) ==
  IF lines = <<>> THEN <<>>
  ELSE (IF LineMatches(propName, lines[1]) THEN <<>> ELSE <<lines[1]>>)
       \o filterLines(Tail(lines), propName)

fmFiltered(c, propName) == filterLines(fmLines(c), propName)

stripField(c, propName) ==
  LET k == fmMatchEnd(c)
  IN  IF k = 0 THEN c
      ELSE LET filtered == fmFiltered(c, propName)
               matched  == SubSeq(c, 1, k + 3)
               after    == Drop(c, k + 3)
           IN  IF \A i \in 1..Len(filtered) : IsBlank(filtered[i])
               THEN IF after # <<>> /\ after[1] = NL THEN Tail(after) ELSE after
               ELSE ExpandReplacement(OpenFence \o Join(filtered, NL) \o CloseFence,
                                      matched, <<>>, after) \o after

\* ------------------------------------------------------------------------
\* Harness for the two pure functions
\* ------------------------------------------------------------------------

PathAlphabet == {"a", "Z", "1", ":", "/", "\\", "."}

PathInputs == UNION {[1..n -> PathAlphabet] : n \in 0..MaxPathLen}

\* Lines the documents are built from
LineSet ==
  { Fence,
    <<"p", ":", "1">>,
    <<" ", "p", ":", "1">>,
    <<"p", " ", ":", "1">>,
    <<"p", "?", ":", "1">>,
    <<"q", ":", "$", "$">>,
    <<>>,
    <<"b">> }

FieldNames == { <<"p">>, <<"p", "?">>, <<"p", ".">> }

DocInputs == {Join(ls, NL) : ls \in UNION {[1..n -> LineSet] : n \in 1..MaxDocLines}}

\* ------------------------------------------------------------------------
\* Plugin state
\* ------------------------------------------------------------------------

\* "90_Archive"
ARCHIVE == <<"9", "0", "_", "A", "r", "c", "h", "i", "v", "e">>

\* "recommended_path"
RECPATH == <<"r", "e", "c", "o", "m", "m", "e", "n", "d", "e", "d", "_", "p", "a", "t", "h">>

DEFAULT_SETTINGS ==
  [archiveFolder |-> ARCHIVE, recommendedPathProperty |-> RECPATH, confirmBeforeMove |-> TRUE]

\* Values typed into the settings panel
ArchiveFolderValues == {ARCHIVE, <<"d">>, <<>>}

PropertyValues == {RECPATH, <<"q">>}

SettingsValues ==
  [archiveFolder : ArchiveFolderValues, recommendedPathProperty : PropertyValues,
   confirmBeforeMove : BOOLEAN]

\* The vault at start-up: folder "d" holding the note "d/x.md", the file the
\* menu is opened on, and a second file that is either "y.md" or an earlier
\* copy of the note at its mirror path under "90_Archive".
Files == {"f1", "f2"}

MenuFiles == {"f1"}

NotePath == <<"d", "/", "x", ".", "m", "d">>

OtherPaths == {<<"y", ".", "m", "d">>, ARCHIVE \o <<"/">> \o NotePath}

\* the folders above path p
RECURSIVE PrefixesOf(_, _)
PrefixesOf(parts, n) ==
  IF n = 0 THEN {} ELSE {Join(SubSeq(parts, 1, n), "/")} \cup PrefixesOf(parts, n - 1)

ParentFolders(p) == PrefixesOf(Split(p, "/"), Len(Split(p, "/")) - 1)

NoteText ==
  OpenFence \o RECPATH \o <<":", " ", "e", "/", "z", NL, "q", ":", "1">> \o CloseFence \o <<NL, "b">>

\* What the metadata cache may hold under the configured property
Undefined == [type |-> "undefined", s |-> <<>>]

Number == [type |-> "number", s |-> <<>>]

Str(s) == [type |-> "string", s |-> s]

FrontmatterValues ==
  { Undefined, Number, Str(<<" ">>),
    Str(<<" ", "e", "/", "z", " ">>),
    Str(<<"d", "/", "x">>),
    Str(<<".", ".", "/", "z">>) }

NoMenu == [open |-> FALSE, file |-> "none", archive |-> FALSE, relocate |-> FALSE, recommendedPath |-> <<>>]

\* One record per request (a click on a menu item).  pc is the await the run
\* stands at: "dialog" (the modal is open), "mkdir", "rename", "process" (the
\* host call is pending), "cancelled" or "done".  idx, current and propName are
\* the locals of ensureParentFolders and removeRecommendedPathProperty.  The
\* other fields log what the run has done: the existence lookup (checked), the
\* prefixes the folder loop looked up (visited, those with existed = FALSE
\* being the createFolder calls), the renameFile and vault.process calls and
\* their success, the errors the host threw, and the notices shown.
Tasks == 1..MaxRequests

NoTask ==
  [pc |-> "none", kind |-> "none", file |-> "none", destination |-> <<>>, dialog |-> FALSE,
   idx |-> 0, current |-> <<>>, propName |-> <<>>, checked |-> FALSE, visited |-> <<>>,
   renameCalls |-> <<>>, renamed |-> FALSE, rewriteCalls |-> 0, rewritten |-> FALSE,
   hostErrors |-> 0, notices |-> <<>>]

\* vault.getAbstractFileByPath(p) is not null
Exists(fp, fo, p) == p \in fo \/ \E f \in Files : fp[f] = p

\* vault.getAbstractFileByPath(p) instanceof TFile
IsFile(fp, p) == \E f \in Files : fp[f] = p

FreeSlots == {t \in Tasks : tasks[t].pc = "none"}

NextSlot == CHOOSE t \in FreeSlots : \A u \in FreeSlots : t <= u

Notify(tk, what) == [tk EXCEPT !.notices = Append(@, what)]

\* ------------------------------------------------------------------------
\* ensureParentFolders, up to its next await
\* ------------------------------------------------------------------------

\* parts after parts.pop()
ParentParts(p) == LET parts == Split(p, "/") IN SubSeq(parts, 1, Len(parts) - 1)

\* The loop from its i-th part on: marks every prefix it looks up, and stops at
\* the first missing one with the createFolder call pending (pc "mkdir"), or
\* returns (pc "ensured").
RECURSIVE ensureParentFolders(_, _, _, _, _)
ensureParentFolders(tk, i, current, fp, fo) ==
  LET parts == ParentParts(tk.destination)
  IN  IF i > Len(parts) THEN [tk EXCEPT !.pc = "ensured"]
      ELSE LET cur == IF current # <<>> THEN current \o <<"/">> \o parts[i] ELSE parts[i]
               existing == Exists(fp, fo, cur)
               seen == [tk EXCEPT !.visited = Append(@, [path |-> cur, existed |-> existing])]
           IN  IF existing THEN ensureParentFolders(seen, i + 1, cur, fp, fo)
               ELSE [seen EXCEPT !.pc = "mkdir", !.idx = i, !.current = cur]

\* ------------------------------------------------------------------------
\* archiveFile and relocateFile
\* ------------------------------------------------------------------------

\* The call of fileManager.renameFile(file, destination).  The log entry keeps
\* the file's path at the call, whether that path lay under the archive folder
\* as configured at the call, and whether the destination mirrors it there.
callRename(tk, fp) ==
  LET from == fp[tk.file]
      root == settings.archiveFolder \o <<"/">>
  IN  [tk EXCEPT !.pc = "rename", !.idx = 0, !.current = <<>>,
                 !.renameCalls = Append(@, [from |-> from,
                                            inArchive |-> StartsWith(from, root),
                                            mirrored |-> tk.destination = root \o from])]

\* ensureParentFolders from part i, then the rename call
ensureThenRename(tk, i, current, fp, fo) ==
  LET e == ensureParentFolders(tk, i, current, fp, fo)
  IN  IF e.pc = "mkdir" THEN e ELSE callRename(e, fp)

\* moveFile with the existence check left out
moveFile_noExistenceCheck(tk) ==
  ensureThenRename([tk EXCEPT !.checked = TRUE], 1, <<>>, filePath, folders)

\* The body of the try block of archiveFile and of relocateFile up to the
\* first await: the existence check, then the folder loop.
moveFile(tk) ==
  IF Exists(filePath, folders, tk.destination)
  THEN [Notify(tk, "exists") EXCEPT !.checked = TRUE, !.pc = "done"]
  ELSE ensureThenRename([tk EXCEPT !.checked = TRUE], 1, <<>>, filePath, folders)

\* caught with the notice left out
caught_silent(tk) == [tk EXCEPT !.pc = "done", !.idx = 0, !.current = <<>>, !.propName = <<>>]

\* catch (e) { new Notice(...failed...); console.error(...) }
caught(tk) ==
  [Notify(tk, "failed") EXCEPT !.pc = "done", !.idx = 0, !.current = <<>>, !.propName = <<>>]

\* the host call awaited by task tk throws
Throws(tk) == caught([tk EXCEPT !.hostErrors = @ + 1])

\* What follows await renameFile: archiveFile reports; relocateFile looks the
\* moved file up and calls removeRecommendedPathProperty, which reads the
\* property name and calls vault.process.
afterRename(tk, fp) ==
  IF tk.kind = "relocate" /\ IsFile(fp, tk.destination)
  THEN [tk EXCEPT !.renamed = TRUE, !.pc = "process",
                  !.propName = settings.recommendedPathProperty, !.rewriteCalls = @ + 1]
  ELSE [Notify([tk EXCEPT !.renamed = TRUE], "success") EXCEPT !.pc = "done"]

archiveFile(tk) == moveFile(tk)

relocateFile(tk) == moveFile(tk)

\* ------------------------------------------------------------------------
\* Menu handlers
\* ------------------------------------------------------------------------

\* recommendedPath && typeof recommendedPath === "string" && recommendedPath.trim()
OffersRelocate(v) == v.type = "string" /\ v.s # <<>> /\ Trim(v.s) # <<>>

\* The "file-menu" callback for a TFile.  Once MaxRequests requests have been
\* made no item can be clicked any more, and the menu is left out.
OpenMenu(file, v) ==
  /\ FreeSlots # {}
  /\ menu' = [open |-> TRUE, file |-> file,
              archive |-> ~ StartsWith(filePath[file], settings.archiveFolder \o <<"/">>),
              relocate |-> OffersRelocate(v),
              recommendedPath |-> IF OffersRelocate(v) THEN v.s ELSE <<>>]
  /\ UNCHANGED <<settings, data, filePath, content, folders, tasks, pureVars>>

\* the "file-menu" callback for a folder: if (!(file instanceof TFile)) return
OpenMenuOnFolder ==
  /\ FreeSlots # {}
  /\ menu' = [NoMenu EXCEPT !.open = TRUE]
  /\ UNCHANGED <<settings, data, filePath, content, folders, tasks, pureVars>>

\* the menu is dismissed without a click
CloseMenu ==
  /\ menu.open
  /\ menu' = NoMenu
  /\ UNCHANGED <<settings, data, filePath, content, folders, tasks, pureVars>>

\* handleArchive with the confirmation setting not consulted
handleArchive_noConfirm(file) ==
  LET destination == settings.archiveFolder \o <<"/">> \o filePath[file]
      req == [NoTask EXCEPT !.kind = "archive", !.file = file, !.destination = destination]
  IN  tasks' = [tasks EXCEPT ![NextSlot] = archiveFile(req)]

handleArchive(file) ==
  LET destination == settings.archiveFolder \o <<"/">> \o filePath[file]
      req == [NoTask EXCEPT !.kind = "archive", !.file = file, !.destination = destination]
  IN  tasks' = [tasks EXCEPT ![NextSlot] =
                  IF settings.confirmBeforeMove
                  THEN [req EXCEPT !.pc = "dialog", !.dialog = TRUE]
                  ELSE archiveFile(req)]

\* handleRelocate with the validation left out
handleRelocate_noValidation(file, recommendedPath) ==
  LET destination == IF Includes(recommendedPath, ".") THEN recommendedPath
                     ELSE recommendedPath \o <<".", "m", "d">>
      req == [NoTask EXCEPT !.kind = "relocate", !.file = file, !.destination = destination]
  IN  tasks' = [tasks EXCEPT ![NextSlot] =
                  IF settings.confirmBeforeMove
                  THEN [req EXCEPT !.pc = "dialog", !.dialog = TRUE]
                  ELSE relocateFile(req)]

handleRelocate(file, recommendedPath) ==
  LET destination == IF Includes(recommendedPath, ".") THEN recommendedPath
                     ELSE recommendedPath \o <<".", "m", "d">>
      req == [NoTask EXCEPT !.kind = "relocate", !.file = file, !.destination = destination]
  IN  tasks' = [tasks EXCEPT ![NextSlot] =
                  IF ~ isValidVaultPath(destination)
                  THEN [Notify(req, "invalid") EXCEPT !.pc = "done"]
                  ELSE IF settings.confirmBeforeMove
                  THEN [req EXCEPT !.pc = "dialog", !.dialog = TRUE]
                  ELSE relocateFile(req)]

\* onClick of the "Archive" item
ClickArchive ==
  /\ menu.open /\ menu.archive
  /\ FreeSlots # {}
  /\ handleArchive(menu.file)
  /\ menu' = NoMenu
  /\ UNCHANGED <<settings, data, filePath, content, folders, pureVars>>

\* onClick of the "Move to ..." item
ClickRelocate ==
  /\ menu.open /\ menu.relocate
  /\ FreeSlots # {}
  /\ handleRelocate(menu.file, Trim(menu.recommendedPath))
  /\ menu' = NoMenu
  /\ UNCHANGED <<settings, data, filePath, content, folders, pureVars>>

\* ------------------------------------------------------------------------
\* ConfirmMoveModal
\* ------------------------------------------------------------------------

\* the Confirm button: this.close(); this.onConfirm()
Confirm(t) ==
  /\ tasks[t].pc = "dialog"
  /\ tasks' = [tasks EXCEPT ![t] =
                 IF tasks[t].kind = "archive" THEN archiveFile(tasks[t]) ELSE relocateFile(tasks[t])]
  /\ UNCHANGED <<settings, data, filePath, content, folders, menu, pureVars>>

\* the Cancel button: this.close()
Cancel(t) ==
  /\ tasks[t].pc = "dialog"
  /\ tasks' = [tasks EXCEPT ![t].pc = "cancelled"]
  /\ UNCHANGED <<settings, data, filePath, content, folders, menu, pureVars>>

\* ------------------------------------------------------------------------
\* Returns of the awaited host calls
\* ------------------------------------------------------------------------

\* await this.app.vault.createFolder(current)
CreateFolderReturns(t) ==
  /\ tasks[t].pc = "mkdir"
  /\ \/ /\ ~ Exists(filePath, folders, tasks[t].current)
        /\ folders' = folders \cup {tasks[t].current}
        /\ tasks' = [tasks EXCEPT ![t] =
                       ensureThenRename(tasks[t], tasks[t].idx + 1, tasks[t].current,
                                        filePath, folders')]
     \/ /\ tasks' = [tasks EXCEPT ![t] = Throws(tasks[t])]
        /\ UNCHANGED folders
  /\ UNCHANGED <<settings, data, filePath, content, menu, pureVars>>

\* await this.app.fileManager.renameFile(file, destination)
RenameReturns(t) ==
  /\ tasks[t].pc = "rename"
  /\ \/ /\ ~ Exists(filePath, folders, tasks[t].destination)
        /\ filePath' = [filePath EXCEPT ![tasks[t].file] = tasks[t].destination]
        /\ tasks' = [tasks EXCEPT ![t] = afterRename(tasks[t], filePath')]
     \/ /\ tasks' = [tasks EXCEPT ![t] = Throws(tasks[t])]
        /\ UNCHANGED filePath
  /\ UNCHANGED <<settings, data, content, folders, menu, pureVars>>

\* await this.app.vault.process(file, callback), then the success notice
ProcessReturns(t) ==
  /\ tasks[t].pc = "process"
  /\ \/ /\ content' = [content EXCEPT ![tasks[t].file] = stripField(@, tasks[t].propName)]
        /\ tasks' = [tasks EXCEPT ![t] =
                       [Notify([tasks[t] EXCEPT !.rewritten = TRUE], "success")
                          EXCEPT !.pc = "done", !.propName = <<>>]]
     \/ /\ tasks' = [tasks EXCEPT ![t] = Throws(tasks[t])]
        /\ UNCHANGED content
  /\ UNCHANGED <<settings, data, filePath, folders, menu, pureVars>>

\* ------------------------------------------------------------------------
\* FileMoverSettingTab: the three onChange handlers, each followed by saveSettings
\* ------------------------------------------------------------------------

SetArchiveFolder(value) ==
  /\ settings' = [settings EXCEPT !.archiveFolder = value]
  /\ data' = [present |-> TRUE, value |-> settings']
  /\ UNCHANGED <<filePath, content, folders, menu, tasks, pureVars>>

SetProperty(value) ==
  /\ settings' = [settings EXCEPT !.recommendedPathProperty = value]
  /\ data' = [present |-> TRUE, value |-> settings']
  /\ UNCHANGED <<filePath, content, folders, menu, tasks, pureVars>>

SetConfirm(value) ==
  /\ settings' = [settings EXCEPT !.confirmBeforeMove = value]
  /\ data' = [present |-> TRUE, value |-> settings']
  /\ UNCHANGED <<filePath, content, folders, menu, tasks, pureVars>>

\* ------------------------------------------------------------------------
\* Specification of the plugin
\* ------------------------------------------------------------------------

\* loadSettings: Object.assign({}, DEFAULT_SETTINGS, await this.loadData())
loadSettings(d) == IF d.present THEN d.value ELSE DEFAULT_SETTINGS

PluginInit ==
  /\ data \in {[present |-> FALSE, value |-> DEFAULT_SETTINGS]}
              \cup {[present |-> TRUE, value |-> v] : v \in SettingsValues}
  /\ settings = loadSettings(data)
  /\ \E other \in OtherPaths :
        /\ filePath = [f \in Files |-> IF f = "f1" THEN NotePath ELSE other]
        /\ folders = ParentFolders(NotePath) \cup ParentFolders(other)
  /\ content = [f \in Files |-> IF f = "f1" THEN NoteText ELSE <<"b">>]
  /\ menu = NoMenu
  /\ tasks = [t \in Tasks |-> NoTask]

PureOff == arg = <<>> /\ res = <<>> /\ ppc = "off"

Init == PluginInit /\ PureOff

Next ==
  \/ \E f \in MenuFiles, v \in FrontmatterValues : OpenMenu(f, v)
  \/ OpenMenuOnFolder
  \/ CloseMenu
  \/ ClickArchive
  \/ ClickRelocate
  \/ \E t \in Tasks : Confirm(t)
  \/ \E t \in Tasks : Cancel(t)
  \/ \E t \in Tasks : CreateFolderReturns(t)
  \/ \E t \in Tasks : RenameReturns(t)
  \/ \E t \in Tasks : ProcessReturns(t)
  \/ \E v \in ArchiveFolderValues : SetArchiveFolder(v)
  \/ \E v \in PropertyValues : SetProperty(v)
  \/ \E v \in BOOLEAN : SetConfirm(v)

Spec == Init /\ [][Next]_vars

\* ------------------------------------------------------------------------
\* Specifications of the two pure functions
\* ------------------------------------------------------------------------

PluginIdle ==
  /\ data = [present |-> FALSE, value |-> DEFAULT_SETTINGS]
  /\ settings = loadSettings(data)
  /\ filePath = [f \in Files |-> NotePath]
  /\ content = [f \in Files |-> NoteText]
  /\ folders = ParentFolders(NotePath)
  /\ menu = NoMenu
  /\ tasks = [t \in Tasks |-> NoTask]

InitValid ==
  /\ PluginIdle
  /\ arg \in {[filePath |-> p] : p \in PathInputs}
  /\ res = FALSE
  /\ ppc = "in"

CallIsValid ==
  /\ ppc = "in"
  /\ res' = isValidVaultPath(arg.filePath)
  /\ ppc' = "out"
  /\ UNCHANGED <<arg, plugVars>>

NextValid == CallIsValid

SpecValid == InitValid /\ [][NextValid]_vars

InitStrip ==
  /\ PluginIdle
  /\ arg \in {[content |-> c, propName |-> n] : c \in DocInputs, n \in FieldNames}
  /\ res = <<>>
  /\ ppc = "in"

CallStrip ==
  /\ ppc = "in"
  /\ res' = stripField(arg.content, arg.propName)
  /\ ppc' = "out"
  /\ UNCHANGED <<arg, plugVars>>

NextStrip == CallStrip

SpecStrip == InitStrip /\ [][NextStrip]_vars

\* ------------------------------------------------------------------------
\* Vocabulary of the claims, stated on the characters of a path
\* ------------------------------------------------------------------------

HasDrivePrefix(p) == Len(p) >= 2 /\ p[1] \in Letters /\ p[2] = ":"

HasLeadingSlash(p) == Len(p) >= 1 /\ p[1] = "/"

\* ".." stands between two separators, or between one and an end of the path
HasDotDotSegment(p, seps) ==
  \E i \in 1..(Len(p) - 1) :
    /\ p[i] = "." /\ p[i + 1] = "."
    /\ (i = 1 \/ p[i - 1] \in seps)
    /\ (i + 1 = Len(p) \/ p[i + 2] \in seps)

AcceptedPath(p) ==
  ~ HasDrivePrefix(p) /\ ~ HasLeadingSlash(p) /\ ~ HasDotDotSegment(p, {"/", "\\"})

Count(seq, x) == Cardinality({i \in DOMAIN seq : seq[i] = x})

NoHostCall(tk) ==
  /\ tk.visited = <<>> /\ tk.renameCalls = <<>> /\ tk.rewriteCalls = 0
  /\ ~ tk.renamed /\ ~ tk.rewritten

VaultUnchanged == filePath' = filePath /\ folders' = folders /\ content' = content

\* the i-th '/'-separated prefix of path p
AncestorPrefix(p, i) == Join(SubSeq(Split(p, "/"), 1, i), "/")

\* ------------------------------------------------------------------------
\* The claims
\* ------------------------------------------------------------------------

\* C1: when the existence lookup that opens archiveFile or relocateFile finds
\* an object at the destination, that step ends the procedure with no folder
\* creation, no rename and no rewrite called, the vault (and so the file's
\* path) is as it was before the step, and the ended procedure never acts again.
C1_ExistingDestinationAborts ==
  [][\A t \in Tasks :
       /\ ( /\ ~ tasks[t].checked /\ tasks'[t].checked
            /\ Exists(filePath, folders, tasks'[t].destination) )
          => /\ tasks'[t].pc = "done"
             /\ NoHostCall(tasks'[t])
             /\ tasks'[t].notices = <<"exists">>
             /\ VaultUnchanged
       /\ tasks[t].pc = "done" => tasks'[t] = tasks[t]]_vars

C1_Witness ==
  /\ \E t \in Tasks : tasks[t].kind = "archive" /\ tasks[t].notices = <<"exists">>
                       /\ filePath[tasks[t].file] = NotePath

\* C2: every destination that has reached the existence check of the move
\* procedure has no leading '/', no drive-letter prefix and no ".." segment.
C2_DestinationsStayInVault ==
  \A t \in Tasks :
    tasks[t].checked =>
      /\ ~ HasLeadingSlash(tasks[t].destination)
      /\ ~ HasDrivePrefix(tasks[t].destination)
      /\ ~ HasDotDotSegment(tasks[t].destination, {"/"})

\* C3: a relocate request whose destination is not an accepted path has ended
\* with the invalid-path notice alone: no dialog was opened, no existence
\* lookup made, no folder created, no rename and no rewrite called.
C3_InvalidPathStopsRelocate ==
  \A t \in Tasks :
    (tasks[t].kind = "relocate" /\ ~ AcceptedPath(tasks[t].destination)) =>
      /\ tasks[t].pc = "done"
      /\ tasks[t].notices = <<"invalid">>
      /\ ~ tasks[t].dialog /\ ~ tasks[t].checked
      /\ NoHostCall(tasks[t])

C3_Witness ==
  \E t \in Tasks : tasks[t].kind = "relocate" /\ tasks[t].notices = <<"invalid">>
                   /\ settings.confirmBeforeMove

\* While a request waits in the dialog, or after it was cancelled, none of the
\* procedure's steps has happened for it.
C4_DialogHolds ==
  \A t \in Tasks :
    /\ tasks[t].pc \in {"dialog", "cancelled"} =>
         /\ tasks[t].dialog /\ ~ tasks[t].checked
         /\ NoHostCall(tasks[t]) /\ tasks[t].notices = <<>>
    /\ ~ tasks[t].dialog => tasks[t].pc \notin {"dialog", "cancelled"}

\* A request made while the setting is on waits in the dialog, one made while
\* it is off has started the procedure; a cancelled request never changes.
C4_DialogSteps ==
  \A t \in Tasks :
    /\ tasks[t].pc = "cancelled" => tasks'[t] = tasks[t]
    /\ (tasks[t].pc = "none" /\ tasks'[t].pc # "none" /\ tasks'[t].notices # <<"invalid">>) =>
         IF settings.confirmBeforeMove
         THEN tasks'[t].pc = "dialog"
         ELSE ~ tasks'[t].dialog /\ tasks'[t].checked

\* C4: when the confirmation setting is on, no step of the move procedure
\* happens before Confirm is pressed and none ever happens after Cancel; when
\* it is off the procedure starts directly, without a dialog.
C4_ConfirmationGatesTheMove == [] C4_DialogHolds /\ [][C4_DialogSteps]_vars

C4_Witness ==
  \E t \in Tasks : tasks[t].dialog /\ tasks[t].kind = "archive" /\ tasks[t].renamed

\* Every rename an Archive request calls is for a file whose path, at the call,
\* does not start with '<archiveFolder>/', to '<archiveFolder>/<that path>'.
C5_ArchiveRenames ==
  \A t \in Tasks :
    tasks[t].kind = "archive" =>
      \A i \in DOMAIN tasks[t].renameCalls :
        ~ tasks[t].renameCalls[i].inArchive /\ tasks[t].renameCalls[i].mirrored

\* A menu that offers Archive is opened on a file outside the archive folder.
C5_ArchiveOffers ==
  (~ menu.open /\ menu'.open /\ menu'.archive) =>
     ~ StartsWith(filePath[menu'.file], settings.archiveFolder \o <<"/">>)

\* C5: Archive is offered only for a file whose path does not start with
\* '<archiveFolder>/', every rename it issues has the destination
\* '<archiveFolder>/<the file's current path>', and no Archive rename is issued
\* for a file whose path already starts with '<archiveFolder>/'.
C5_NeverArchivesTheArchived == [] C5_ArchiveRenames /\ [][C5_ArchiveOffers]_vars

\* C6: isValidVaultPath(p) is false when p has a drive-letter prefix, a
\* leading '/' or a ".." segment between '/' or '\' separators, and true for
\* every other p.
C6_ValidatorDecides == ppc = "out" => res = AcceptedPath(arg.filePath)

C6_Witness ==
  ppc = "out" /\ arg.filePath = <<"a", "\\", ".", ".">> /\ res = FALSE

\* C7: for a document that starts with a fenced frontmatter block, the
\* frontmatter block of stripField's result holds no line whose trimmed start
\* is the field name, taken literally, followed by ':'.
C7_FieldIsGone ==
  (ppc = "out" /\ fmMatchEnd(arg.content) # 0 /\ fmMatchEnd(res) # 0) =>
    \A i \in 1..Len(fmLines(res)) :
      ~ StartsWith(TrimStart(fmLines(res)[i]), arg.propName \o <<":">>)

\* C8: when a non-blank line is left in the block, stripField's result is the
\* fence around exactly the lines that were not removed, unchanged and in
\* their order, followed by the text after the closing fence, unchanged.
C8_RestIsUntouched ==
  LET c == arg.content
      k == fmMatchEnd(c)
      kept == fmFiltered(c, arg.propName)
  IN  (ppc = "out" /\ k # 0 /\ \E i \in 1..Len(kept) : ~ IsBlank(kept[i])) =>
        res = OpenFence \o Join(kept, NL) \o CloseFence \o Drop(c, k + 3)

\* The rewrite is called only after the rename succeeded and success reported
\* only after both; every host error is reported once, ends the run and
\* excludes a success report.
C9_ErrorsAndOrder ==
  \A t \in Tasks :
    /\ tasks[t].kind = "relocate" =>
         /\ tasks[t].rewriteCalls > 0 => tasks[t].renamed
         /\ tasks[t].rewritten => tasks[t].rewriteCalls = 1
         /\ Count(tasks[t].notices, "success") > 0 => tasks[t].renamed /\ tasks[t].rewritten
    /\ tasks[t].hostErrors <= 1
    /\ Count(tasks[t].notices, "failed") = tasks[t].hostErrors
    /\ tasks[t].hostErrors = 1 =>
         tasks[t].pc = "done" /\ Count(tasks[t].notices, "success") = 0

\* No folder is removed, and an ended run never acts again.
C9_ErrorSteps ==
  /\ folders \subseteq folders'
  /\ \A t \in Tasks : tasks[t].pc = "done" => tasks'[t] = tasks[t]

\* C9: in a relocate the rewrite is called only after the rename succeeded and
\* success is reported only after both; an error the host raises in folder
\* creation, rename or rewrite is caught and reported exactly once, after which
\* the run has ended with no success report and no later step, and the folders
\* already created stay.
C9_RelocateFailsCleanly == [] C9_ErrorsAndOrder /\ [][C9_ErrorSteps]_vars

C9_Witness ==
  \E t \in Tasks : /\ tasks[t].kind = "relocate" /\ tasks[t].renamed
                   /\ tasks[t].hostErrors = 1 /\ tasks[t].visited # <<>>
                   /\ \E i \in DOMAIN tasks[t].visited : ~ tasks[t].visited[i].existed

\* C10: the folder loop looks up the '/'-separated ancestor prefixes of the
\* destination in order, shallowest first, and once it has returned (the
\* rename has been called) it has looked up every one of them.
C10_PrefixesInOrder ==
  \A t \in Tasks :
    LET tk == tasks[t]
        n  == Len(Split(tk.destination, "/")) - 1
    IN  /\ Len(tk.visited) <= n
        /\ \A i \in 1..Len(tk.visited) : tk.visited[i].path = AncestorPrefix(tk.destination, i)
        /\ tk.renameCalls # <<>> => Len(tk.visited) = n

====
